---- MODULE Spec2Model ----
(***************************************************************************)
(* Model of the curiosity engine (src/engine/curiosity_engine.py) with its *)
(* completion router (src/engine/models.py) and retriever                  *)
(* (src/engine/retrieval.py).                                              *)
(*                                                                         *)
(* A text is a sequence of one-character strings.  A novelty is an integer *)
(* number of 1/NovScale; a distance is an integer number of ln 2, so that  *)
(* exp(-d) = 2^(-d) is exact.  A clock reading is an integer number of     *)
(* ticks, TicksPerCenti ticks to 0.01 s.                                   *)
(***************************************************************************)
EXTENDS Integers, Sequences, FiniteSets, TLC

\* ------------------------------------------------------------------ bounds
MaxRounds == 2
MaxLines == 2
MaxClock == 1
MaxHead == 3
MaxBody == 6
MaxHits == 2
MaxDist == 3
MaxTexts == 3

\* ------------------------------------------------------- program constants
MinQuestionLen == 6
PrefixWindow == 3
PoolSize == 8
CyclePerRound == 6

\* ---------------------------------------------------------- numeric scales
\* exp(-d) is held as a number of 1/SimScale; a novelty as a number of
\* 1/NovScale, which every mean of up to 5 similarities divides exactly.
SimScale == 8
MeanScale == 60
NovScale == SimScale * MeanScale
TicksPerCenti == 2

\* A probability is a whole number of quarters of 0.001
TicksPerMilli == 4
ProbOne == 1000 * TicksPerMilli

\* ------------------------------------------------------------------- texts
Digits == {"0", "1", "2", "3", "4", "5", "6", "7", "8", "9"}
Whitespace == {" ", "\t"}
NL == "\n"

IsDigit(c) == c \in Digits

Min(a, b) == IF a <= b THEN a ELSE b
Max(a, b) == IF a >= b THEN a ELSE b

\* s[:n]
Prefix(s, n) == SubSeq(s, 1, Min(n, Len(s)))

\* c in s
Contains(s, c) == \E i \in DOMAIN s : s[i] = c

RECURSIVE LStrip(_)
LStrip(s) ==
    IF s # <<>> /\ Head(s) \in Whitespace THEN LStrip(Tail(s)) ELSE s

RECURSIVE RStrip(_)
RStrip(s) ==
    IF s # <<>> /\ s[Len(s)] \in Whitespace
    THEN RStrip(SubSeq(s, 1, Len(s) - 1))
    ELSE s

\* s.strip()
Strip(s) == RStrip(LStrip(s))

\* s.split(c, 1)
Split1(s, c) ==
    IF Contains(s, c)
    THEN LET i == CHOOSE k \in DOMAIN s :
                      s[k] = c /\ \A j \in 1..(k - 1) : s[j] # c
         IN  <<SubSeq(s, 1, i - 1), SubSeq(s, i + 1, Len(s))>>
    ELSE <<s>>

\* s.splitlines(), for the line boundary "\n"
RECURSIVE SplitLines(_)
SplitLines(s) ==
    IF s = <<>> THEN <<>>
    ELSE IF Contains(s, NL)
         THEN LET parts == Split1(s, NL)
              IN  <<parts[1]>> \o SplitLines(parts[2])
         ELSE <<s>>

\* "\n".join(ls)
RECURSIVE JoinLines(_)
JoinLines(ls) ==
    IF ls = <<>> THEN <<>>
    ELSE IF Len(ls) = 1 THEN ls[1]
         ELSE ls[1] \o <<NL>> \o JoinLines(Tail(ls))

\* ------------------------------------------------- generate_questions: parse
\* The loop body of generate_questions for one line of the completion: the
\* question text the line yields ("ok"), nothing ("skip"), or the IndexError
\* that line[1] raises on a one-character line.
HasPrefixByPeriod(line) == IsDigit(line[1]) /\ Contains(Prefix(line, PrefixWindow), ".")

\* The length check left out
ParseLineKeepsShort(raw_line) ==
    LET line == Strip(raw_line) IN
    IF line = <<>> THEN [kind |-> "skip", q |-> <<>>]
    ELSE IF ~HasPrefixByPeriod(line) /\ IsDigit(line[1]) /\ Len(line) < 2
    THEN [kind |-> "IndexError", q |-> <<>>]
    ELSE LET numbered == HasPrefixByPeriod(line)
                         \/ (IsDigit(line[1]) /\ line[2] \in {")", "."})
             parts == IF Contains(Prefix(line, PrefixWindow), ".")
                      THEN Split1(line, ".")
                      ELSE Split1(line, ")")
             rest == IF numbered /\ Len(parts) = 2 THEN Strip(parts[2]) ELSE line
         IN  [kind |-> "ok", q |-> rest]

ParseLine(raw_line) ==
    LET line == Strip(raw_line) IN
    IF line = <<>> THEN [kind |-> "skip", q |-> <<>>]
    ELSE IF ~HasPrefixByPeriod(line) /\ IsDigit(line[1]) /\ Len(line) < 2
    THEN [kind |-> "IndexError", q |-> <<>>]
    ELSE LET numbered == HasPrefixByPeriod(line)
                         \/ (IsDigit(line[1]) /\ line[2] \in {")", "."})
             parts == IF Contains(Prefix(line, PrefixWindow), ".")
                      THEN Split1(line, ".")
                      ELSE Split1(line, ")")
             rest == IF numbered /\ Len(parts) = 2 THEN Strip(parts[2]) ELSE line
         IN  IF Len(rest) < MinQuestionLen
             THEN [kind |-> "skip", q |-> <<>>]
             ELSE [kind |-> "ok", q |-> rest]

\* ------------------------------------------------------------ _novelty
RECURSIVE Pow2(_)
Pow2(n) == IF n <= 0 THEN 1 ELSE 2 * Pow2(n - 1)

\* math.exp(-max(d, 0.0)), d a number of ln 2
ExpNeg(d) == SimScale \div Pow2(Max(d, 0))

RECURSIVE SumSims(_)
SumSims(hits) == IF hits = <<>> THEN 0 ELSE ExpNeg(Head(hits)) + SumSims(Tail(hits))

Clamp(x) == Max(0, Min(NovScale, x))

\* _novelty, given the distances of the hits retriever.search(question, 5) returns
\* Neither max(d, 0.0) nor the clamp
NoveltyRaw(hits) ==
    IF hits = <<>> THEN NovScale \div 2
    ELSE LET Raw(d) == IF d >= 0 THEN SimScale \div Pow2(d) ELSE SimScale * Pow2(0 - d)
             sum[i \in 0..Len(hits)] == IF i = 0 THEN 0 ELSE sum[i - 1] + Raw(hits[i])
         IN  NovScale - (sum[Len(hits)] * MeanScale) \div Len(hits)

Novelty(hits) ==
    IF hits = <<>> THEN NovScale \div 2
    ELSE Clamp(NovScale - (SumSims(hits) * MeanScale) \div Len(hits))

\* ------------------------------------------- generate_questions: the batch
\* An insertion that puts a candidate before those of equal novelty
InsertBeforeTies(sorted, c) ==
    IF sorted = <<>> THEN <<c>>
    ELSE LET k == CHOOSE n \in 0..Len(sorted) :
                      /\ \A i \in 1..n : sorted[i].novelty > c.novelty
                      /\ (n < Len(sorted) => sorted[n + 1].novelty <= c.novelty)
         IN  SubSeq(sorted, 1, k) \o <<c>> \o SubSeq(sorted, k + 1, Len(sorted))

\* The sort left out: the batch in line order
Unsorted(questions) == questions

\* questions.sort(key=novelty, reverse=True): stable, so equal novelties keep
\* the order they were appended in.
RECURSIVE InsertByNovelty(_, _)
InsertByNovelty(sorted, c) ==
    IF sorted = <<>> THEN <<c>>
    ELSE IF Head(sorted).novelty >= c.novelty
         THEN <<Head(sorted)>> \o InsertByNovelty(Tail(sorted), c)
         ELSE <<c>> \o sorted

RECURSIVE SortFrom(_, _)
SortFrom(sorted, rest) ==
    IF rest = <<>> THEN sorted
    ELSE SortFrom(InsertByNovelty(sorted, Head(rest)), Tail(rest))

SortByNovelty(questions) == SortFrom(<<>>, questions)

\* The for loop over raw_output.splitlines(): the texts of the questions it
\* appends, in line order, or the IndexError a line raised.
RECURSIVE ParseLoop(_, _)
ParseLoop(lines, texts) ==
    IF lines = <<>> THEN [kind |-> "ok", texts |-> texts]
    ELSE LET p == ParseLine(Head(lines)) IN
         IF p.kind = "IndexError" THEN [kind |-> "IndexError", texts |-> <<>>]
         ELSE IF p.kind = "skip" THEN ParseLoop(Tail(lines), texts)
         ELSE ParseLoop(Tail(lines), Append(texts, p.q))

ParseCompletion(raw) == ParseLoop(SplitLines(raw), <<>>)

\* Retriever.search(query, 5), as the distances of its hits: none without an
\* index; ret maps a query to the distances the index gives
Search(has_idx, ret, query) == IF has_idx THEN ret[query] ELSE <<>>

\* {"q": line, "novelty": self._novelty(line)} for each question appended
Score(texts, has_idx, ret) ==
    [i \in DOMAIN texts |->
        [q |-> texts[i], novelty |-> Novelty(Search(has_idx, ret, texts[i]))]]

\* generate_questions from the parse loop's outcome p on: score, sort
GenerateQuestions(p, has_idx, ret) ==
    IF p.kind = "ok"
    THEN [kind |-> "ok", questions |-> SortByNovelty(Score(p.texts, has_idx, ret))]
    ELSE [kind |-> p.kind, questions |-> <<>>]

\* The filter left out
FreshUnfiltered(batch, thr) == batch

\* fresh = [q for q in batch if q["novelty"] >= self.nov_thr]
Fresh(batch, thr) == SelectSeq(batch, LAMBDA c : c.novelty >= thr)

\* round(x, 2) of an elapsed time of `ticks` ticks, in 0.01 s: to the nearest,
\* a tie to the even one
Round2(ticks) ==
    LET q == ticks \div TicksPerCenti
        r == ticks % TicksPerCenti
    IN  IF 2 * r < TicksPerCenti THEN q
        ELSE IF 2 * r > TicksPerCenti THEN q + 1
        ELSE IF q % 2 = 0 THEN q ELSE q + 1

\* ------------------------------------------------------ dissonance_scan
\* round(score, 3), in ticks: to the nearest 0.001, a tie to the even one
Round3(score) ==
    LET q == score \div TicksPerMilli
        r == score % TicksPerMilli
        m == IF 2 * r < TicksPerMilli THEN q
             ELSE IF 2 * r > TicksPerMilli THEN q + 1
             ELSE IF q % 2 = 0 THEN q ELSE q + 1
    IN  m * TicksPerMilli

\* The inner loop started at i itself: a text paired with itself
InnerStartSelf(i) == i

\* for j in range(i + 1, n): the first j
InnerStart(i) == i + 1

\* The inner loop stopped after the neighbour of i
InnerStopNext(i, n) == Min(i + 1, n)

\* for j in range(i + 1, n): the last j
InnerStop(i, n) == n

\* Every pair kept, whatever its score
QualifiesAlways(score, threshold) == TRUE

\* if score >= threshold
Qualifies(score, threshold) == score >= threshold

\* The two loops of dissonance_scan from (i, j) on; acc holds the pairs
\* appended so far and, in calls, the index pairs given to nli.contradiction
RECURSIVE ScanFrom(_, _, _, _, _, _)
ScanFrom(texts, threshold, nli_fn, i, j, acc) ==
    IF i > Len(texts) THEN acc
    ELSE IF j > InnerStop(i, Len(texts))
    THEN ScanFrom(texts, threshold, nli_fn, i + 1, InnerStart(i + 1), acc)
    ELSE LET a == texts[i]
             b == texts[j]
             score == nli_fn[<<a, b>>]
             found == [a |-> a, b |-> b, contradiction |-> Round3(score)]
         IN  ScanFrom(texts, threshold, nli_fn, i, j + 1,
                 [kind |-> "ok",
                  pairs |-> IF Qualifies(score, threshold)
                            THEN Append(acc.pairs, found) ELSE acc.pairs,
                  calls |-> Append(acc.calls, <<i, j>>)])

DissonanceScan(texts, threshold, nli_fn) ==
    ScanFrom(texts, threshold, nli_fn, 1, InnerStart(1),
             [kind |-> "ok", pairs |-> <<>>, calls |-> <<>>])

\* -------------------------------------------------------------- run_cycle
\* The trail in place of its first eight entries
WholeTrail(entries) == [i \in DOMAIN entries |-> entries[i].q]

\* questions = [item["q"] for item in session["trail"]][:8]
PoolSlice(entries) == [i \in 1..Min(PoolSize, Len(entries)) |-> entries[i].q]

\* ------------------------------------------------ the inputs of a session
Topic == <<"g", "r", "a", "v", "i", "t", "y">>
Seeds == {Topic}
PerRounds == {1}

QuestionA == <<"W", "h", "y", " ", "a", "?">>
QuestionB == <<"W", "h", "a", "t", " ", "i", "f", "?">>

LineA == <<"1", ".", " ">> \o QuestionA
LineB == <<" ", "2", ")", " ">> \o QuestionB
LineShort == <<"3", ".", " ", "H", "o", "w", "?">>
LineDigit == <<"7">>
SessionLines == {LineA, LineB, LineShort, LineDigit}

\* return "[OPENAI] missing OPENAI_API_KEY"
MissingKeyText ==
    <<"[", "O", "P", "E", "N", "A", "I", "]", " ", "m", "i", "s", "s", "i", "n", "g",
      " ", "O", "P", "E", "N", "A", "I", "_", "A", "P", "I", "_", "K", "E", "Y">>

\* return f"[OPENAI ERROR] {r.status_code}: {r.text}", for a 500 with no body
HttpErrorText ==
    <<"[", "O", "P", "E", "N", "A", "I", " ", "E", "R", "R", "O", "R", "]", " ",
      "5", "0", "0", ":", " ">>

Diagnostics == {MissingKeyText, HttpErrorText}

RECURSIVE SeqsUpTo(_, _)
SeqsUpTo(S, n) ==
    IF n = 0 THEN {<<>>}
    ELSE LET shorter == SeqsUpTo(S, n - 1)
         IN  shorter \cup {Append(ls, x) : ls \in shorter, x \in S}

\* What the model may generate: up to MaxLines lines
Generated == {JoinLines(ls) : ls \in SeqsUpTo(SessionLines, MaxLines)}

\* The index, when there is one, holds one snippet, at a distance of 1 or 3
\* from a query
HitLists == {<<1>>, <<3>>}

NovThresholds == {(35 * NovScale) \div 100, (7 * NovScale) \div 8}

\* The lines generate_questions is tried on alone: up to MaxHead characters of
\* those the prefix rule tells apart, then up to MaxBody letters
LineAlphabet == {"1", ".", ")", " ", "a"}
Letters(n) == [i \in 1..n |-> "a"]
ProbeLines == {head \o Letters(n) : head \in SeqsUpTo(LineAlphabet, MaxHead), n \in 0..MaxBody}
ProbeTexts == ProbeLines \cup Generated

NotCalled == [kind |-> "none", questions |-> <<>>]

\* The hits _novelty is tried on alone: up to MaxHits distances, negative ones too
Distances == (0 - MaxDist)..MaxDist
HitProbes == SeqsUpTo(Distances, MaxHits)
NoScore == [kind |-> "none", novelty |-> 0]
ScorePending == [kind |-> "pending", novelty |-> 0]

\* threshold: float = 0.65
DefaultThreshold == (65 * ProbOne) \div 100

\* The texts dissonance_scan is tried on alone, the probabilities its
\* collaborator may give a pair, just below and just above 0.65 among them,
\* and the thresholds: the default, and one that is no multiple of 0.001
ScanTexts == {QuestionA, QuestionB}
TextLists == SeqsUpTo(ScanTexts, MaxTexts)
ProbSamples == {0, DefaultThreshold - 1, DefaultThreshold + 1, ProbOne}
Thresholds == {DefaultThreshold, DefaultThreshold + 1}
NotScanned == [kind |-> "none", pairs |-> <<>>, calls |-> <<>>]

\* The texts a trail may hold, and the contradiction collaborators a cycle is
\* run with: one that finds no contradiction, one that finds one in every
\* pair, and one that finds one where the shorter text comes first
TrailTexts == {QuestionA, QuestionB, Strip(MissingKeyText), Strip(HttpErrorText)}
NliNever == [pair \in TrailTexts \X TrailTexts |-> 0]
NliAlways == [pair \in TrailTexts \X TrailTexts |-> ProbOne]
NliShortFirst ==
    [pair \in TrailTexts \X TrailTexts |->
        IF Len(pair[1]) < Len(pair[2]) THEN DefaultThreshold + 1 ELSE 0]
CycleNlis == {NliNever, NliAlways, NliShortFirst}

\* Rounds enough for a trail longer than the pool
LongRun == PoolSize + 1

NoCycle == [kind |-> "none"]

\* The lists that hold the texts of a list in another order
Reorderings(texts) ==
    {[i \in 1..Len(texts) |-> texts[f[i]]] : f \in Permutations(1..Len(texts))}

Sessions == {"s1", "s2"}
Solo == {"s1"}

NoResult == <<>>

VARIABLES
    api_key,        \* os.getenv("OPENAI_API_KEY") is set
    has_index,      \* Retriever.index is loaded and Retriever.texts is not empty
    retriever,      \* query -> the distances the index gave for it (once asked)
    nov_thr,        \* CuriosityEngine.nov_thr
    max_s,          \* CuriosityEngine.max_s, in ticks
    max_r,          \* CuriosityEngine.max_r
    clock,          \* the last reading of time.time()
    pc,             \* per session: where its bounded_explore call is
    seed,           \* per session: the seed argument
    per_round,      \* per session: the per_round argument
    start,          \* per session: bounded_explore's start
    trail,          \* per session: bounded_explore's trail
    current_seed,   \* per session: bounded_explore's current_seed
    rnd,            \* per session: iterations of the for loop completed
    topic,          \* per session: generate_questions' topic argument
    batch,          \* per session: bounded_explore's batch
    fresh,          \* per session: bounded_explore's fresh
    exc,            \* per session: the exception that ended the call
    result,         \* per session: the value bounded_explore returned
    calls,          \* per session: completion calls issued
    inflight,       \* per session: completion calls issued and not yet answered
    gq_text,        \* generate_questions called alone: the completion it parses
    gq_out,         \* generate_questions called alone: what it returned or raised
    nov_hits,       \* _novelty called alone: the distances the search gave it
    nov_out,        \* _novelty called alone: what it returned
    nli,            \* NLIDetector.contradiction: (a, b) -> the probability it gives
    ds_texts,       \* dissonance_scan called alone: its texts
    ds_thr,         \* dissonance_scan called alone: its threshold
    ds_out,         \* dissonance_scan called alone: what it returned, and its calls
    ds_perm,        \* dissonance_scan called again: the texts in another order
    ds_perm_out,    \* dissonance_scan called again: what it returned, and its calls
    cycle_out,      \* per session: the value run_cycle returned
    scan_in,        \* per session: the texts run_cycle gave dissonance_scan
    scan_calls      \* per session: the index pairs that scan gave nli.contradiction

engine == <<api_key, has_index, nov_thr, max_s, max_r>>
locals == <<seed, per_round, start, trail, current_seed, rnd, topic,
            batch, fresh, exc, result>>
probes == <<nov_hits, nov_out>>
scan == <<nli, ds_texts, ds_thr, ds_out, ds_perm, ds_perm_out>>
cycle == <<cycle_out, scan_in, scan_calls>>
alone == <<gq_text, gq_out, probes, scan, cycle>>
vars == <<engine, retriever, clock, pc, locals, calls, inflight, alone>>

\* No call of bounded_explore or run_cycle yet
InitFrames ==
    /\ clock = 0
    /\ cycle_out = [s \in Sessions |-> NoCycle]
    /\ scan_in = [s \in Sessions |-> <<>>]
    /\ scan_calls = [s \in Sessions |-> <<>>]
    /\ pc = [s \in Sessions |-> "idle"]
    /\ seed = [s \in Sessions |-> <<>>]
    /\ per_round = [s \in Sessions |-> 0]
    /\ start = [s \in Sessions |-> 0]
    /\ trail = [s \in Sessions |-> <<>>]
    /\ current_seed = [s \in Sessions |-> <<>>]
    /\ rnd = [s \in Sessions |-> 0]
    /\ topic = [s \in Sessions |-> <<>>]
    /\ batch = [s \in Sessions |-> <<>>]
    /\ fresh = [s \in Sessions |-> <<>>]
    /\ exc = [s \in Sessions |-> "none"]
    /\ result = [s \in Sessions |-> NoResult]
    /\ calls = [s \in Sessions |-> 0]
    /\ inflight = [s \in Sessions |-> 0]

InitEngine ==
    /\ api_key \in BOOLEAN
    /\ has_index \in BOOLEAN
    /\ retriever = <<>>
    /\ nov_thr \in NovThresholds
    /\ max_s \in 0..(MaxClock - 1)
    /\ max_r \in 0..MaxRounds
    /\ InitFrames

\* No call of _novelty alone
NoveltyIdle ==
    /\ nov_hits = <<>>
    /\ nov_out = NoScore

\* No call of dissonance_scan alone
ScanIdle ==
    /\ nli = <<>>
    /\ ds_texts = <<>>
    /\ ds_thr = DefaultThreshold
    /\ ds_out = NotScanned
    /\ ds_perm = <<>>
    /\ ds_perm_out = NotScanned

Init ==
    /\ InitEngine
    /\ gq_text = <<>>
    /\ gq_out = NotCalled
    /\ NoveltyIdle
    /\ ScanIdle

\* The frames of a call that returned or raised are gone, and its locals with
\* them
DropFrame(s) ==
    /\ start' = [start EXCEPT ![s] = 0]
    /\ trail' = [trail EXCEPT ![s] = <<>>]
    /\ current_seed' = [current_seed EXCEPT ![s] = <<>>]
    /\ rnd' = [rnd EXCEPT ![s] = 0]
    /\ topic' = [topic EXCEPT ![s] = <<>>]
    /\ batch' = [batch EXCEPT ![s] = <<>>]
    /\ fresh' = [fresh EXCEPT ![s] = <<>>]

\* bounded_explore is called: start = time.time(), trail = [], current_seed = seed.
\* The reading is the clock's last one: only the time elapsed since is used.
Start(s) ==
    /\ pc[s] = "idle"
    /\ \E sd \in Seeds, n \in PerRounds :
        /\ seed' = [seed EXCEPT ![s] = sd]
        /\ per_round' = [per_round EXCEPT ![s] = n]
        /\ current_seed' = [current_seed EXCEPT ![s] = sd]
    /\ start' = [start EXCEPT ![s] = clock]
    /\ clock' = clock
    /\ trail' = [trail EXCEPT ![s] = <<>>]
    /\ rnd' = [rnd EXCEPT ![s] = 0]
    /\ pc' = [pc EXCEPT ![s] = "loop"]
    /\ UNCHANGED <<alone, engine, retriever, topic, batch, fresh, exc, result, calls, inflight>>

\* The budget taken as spent once it is reached: >= for >
TimeReached(t, started, budget) == t - started >= budget

\* The budget taken as one tick longer than configured
TimeExceededLate(t, started, budget) == t - started > budget + 1

\* time.time() - start > self.max_s
TimeExceeded(t, started, budget) == t - started > budget

\* for _ in range(self.max_r): the range is exhausted
LoopExhausted(s) ==
    /\ pc[s] = "loop"
    /\ rnd[s] >= max_r
    /\ pc' = [pc EXCEPT ![s] = "returning"]
    /\ UNCHANGED <<alone, engine, retriever, clock, locals, calls, inflight>>

\* if time.time() - start > self.max_s: break
TimeBudgetBreak(s) ==
    /\ pc[s] = "loop"
    /\ rnd[s] < max_r
    /\ \E t \in clock..MaxClock :
        /\ TimeExceeded(t, start[s], max_s)
        /\ clock' = t
    /\ pc' = [pc EXCEPT ![s] = "returning"]
    /\ UNCHANGED <<alone, engine, retriever, locals, calls, inflight>>

\* The loop run once too often: range(self.max_r + 1)
IssueCompletionOnceMore(s) ==
    /\ pc[s] = "loop"
    /\ rnd[s] <= max_r
    /\ \E t \in clock..MaxClock :
        /\ ~TimeExceeded(t, start[s], max_s)
        /\ clock' = t
    /\ topic' = [topic EXCEPT ![s] = current_seed[s]]
    /\ calls' = [calls EXCEPT ![s] = @ + 1]
    /\ inflight' = [inflight EXCEPT ![s] = @ + 1]
    /\ pc' = [pc EXCEPT ![s] = "awaiting"]
    /\ UNCHANGED <<alone, engine, retriever, seed, per_round, start, trail, current_seed, rnd,
                   batch, fresh, exc, result>>

\* The time check passes; generate_questions(current_seed, n=per_round) runs to
\* its await of self.router.completions(prompt)
IssueCompletion(s) ==
    /\ pc[s] = "loop"
    /\ rnd[s] < max_r
    /\ \E t \in clock..MaxClock :
        /\ ~TimeExceeded(t, start[s], max_s)
        /\ clock' = t
    /\ topic' = [topic EXCEPT ![s] = current_seed[s]]
    /\ calls' = [calls EXCEPT ![s] = @ + 1]
    /\ inflight' = [inflight EXCEPT ![s] = @ + 1]
    /\ pc' = [pc EXCEPT ![s] = "awaiting"]
    /\ UNCHANGED <<alone, engine, retriever, seed, per_round, start, trail, current_seed, rnd,
                   batch, fresh, exc, result>>

\* Every text a completion may return, and what the parse loop makes of each
Replies == Generated \cup Diagnostics
Parsed == [text \in Replies |-> ParseCompletion(text)]

\* The retriever once it has answered the queries generate_questions makes for
\* the questions of the parse outcome p: what it answered before, and an answer for each new query
Answers(p, has_idx, ret) ==
    LET new == IF has_idx THEN {p.texts[i] : i \in DOMAIN p.texts} \ DOMAIN ret ELSE {}
    IN  {ext @@ ret : ext \in [new -> HitLists]}

\* What _call_openai may return: the missing-key diagnostic without a key;
\* with one, the generated text or the diagnostic of a status other than 200
OpenAIReplies(key) ==
    IF ~key THEN {MissingKeyText} ELSE Generated \cup {HttpErrorText}

\* self.router.completions(prompt) raises (client.post fails, or the reply is
\* not the JSON expected); nothing catches it below the endpoint
CompletionRaise(s) ==
    /\ pc[s] = "awaiting"
    /\ api_key
    /\ inflight' = [inflight EXCEPT ![s] = @ - 1]
    /\ exc' = [exc EXCEPT ![s] = "HTTPError"]
    /\ pc' = [pc EXCEPT ![s] = "raised"]
    /\ DropFrame(s)
    /\ UNCHANGED <<alone, engine, retriever, clock, seed, per_round, result, calls>>

\* self.router.completions(prompt) returns a text that parses to p:
\* generate_questions parses it and a line raises IndexError
ParseRaises(s, p) ==
    /\ pc[s] = "awaiting"
    /\ p.kind = "IndexError"
    /\ inflight' = [inflight EXCEPT ![s] = @ - 1]
    /\ exc' = [exc EXCEPT ![s] = "IndexError"]
    /\ pc' = [pc EXCEPT ![s] = "raised"]
    /\ DropFrame(s)
    /\ UNCHANGED <<alone, engine, retriever, clock, seed, per_round, result, calls>>

\* self.router.completions(prompt) returns a text that parses to p:
\* generate_questions returns the batch; if not fresh: break
NoFreshBreak(s, p) ==
    /\ pc[s] = "awaiting"
    /\ \E ret \in Answers(p, has_index, retriever) :
        LET g == GenerateQuestions(p, has_index, ret) IN
        /\ g.kind = "ok"
        /\ Fresh(g.questions, nov_thr) = <<>>
        /\ retriever' = ret
        /\ batch' = [batch EXCEPT ![s] = g.questions]
        /\ fresh' = [fresh EXCEPT ![s] = <<>>]
    /\ inflight' = [inflight EXCEPT ![s] = @ - 1]
    /\ pc' = [pc EXCEPT ![s] = "returning"]
    /\ UNCHANGED <<alone, engine, clock, seed, per_round, start, trail, current_seed, rnd,
                   topic, exc, result, calls>>

\* The seed kept on the engine all sessions share, self.current_seed, in place
\* of the local
AcceptRoundSharedSeed(s, p) ==
    /\ pc[s] = "awaiting"
    /\ \E ret \in Answers(p, has_index, retriever) :
        LET g == GenerateQuestions(p, has_index, ret) IN
        /\ g.kind = "ok"
        /\ LET f == Fresh(g.questions, nov_thr) IN
            /\ f # <<>>
            /\ retriever' = ret
            /\ batch' = [batch EXCEPT ![s] = g.questions]
            /\ fresh' = [fresh EXCEPT ![s] = f]
            /\ trail' = [trail EXCEPT ![s] = @ \o f]
            /\ current_seed' = [t \in Sessions |-> f[1].q]
    /\ rnd' = [rnd EXCEPT ![s] = @ + 1]
    /\ inflight' = [inflight EXCEPT ![s] = @ - 1]
    /\ pc' = [pc EXCEPT ![s] = "loop"]
    /\ UNCHANGED <<alone, engine, clock, seed, per_round, start, topic, exc, result, calls>>

\* self.router.completions(prompt) returns a text that parses to p:
\* generate_questions returns the batch; trail.extend(fresh);
\* current_seed = fresh[0]["q"]; the next iteration
AcceptRound(s, p) ==
    /\ pc[s] = "awaiting"
    /\ \E ret \in Answers(p, has_index, retriever) :
        LET g == GenerateQuestions(p, has_index, ret) IN
        /\ g.kind = "ok"
        /\ LET f == Fresh(g.questions, nov_thr) IN
            /\ f # <<>>
            /\ retriever' = ret
            /\ batch' = [batch EXCEPT ![s] = g.questions]
            /\ fresh' = [fresh EXCEPT ![s] = f]
            /\ trail' = [trail EXCEPT ![s] = @ \o f]
            /\ current_seed' = [current_seed EXCEPT ![s] = f[1].q]
    /\ rnd' = [rnd EXCEPT ![s] = @ + 1]
    /\ inflight' = [inflight EXCEPT ![s] = @ - 1]
    /\ pc' = [pc EXCEPT ![s] = "loop"]
    /\ UNCHANGED <<alone, engine, clock, seed, per_round, start, topic, exc, result, calls>>

\* return {"trail": trail, "elapsed_s": round(time.time() - start, 2)}
Return(s) ==
    /\ pc[s] = "returning"
    /\ \E t \in clock..MaxClock :
        /\ clock' = t
        /\ result' = [result EXCEPT ![s] =
                        [trail |-> trail[s], elapsed_s |-> Round2(t - start[s])]]
    /\ pc' = [pc EXCEPT ![s] = "returned"]
    /\ DropFrame(s)
    /\ UNCHANGED <<alone, engine, retriever, seed, per_round, exc, calls, inflight>>

Step(s) ==
    \/ Start(s)
    \/ LoopExhausted(s)
    \/ TimeBudgetBreak(s)
    \/ IssueCompletion(s)
    \/ CompletionRaise(s)
    \/ \E text \in OpenAIReplies(api_key) : ParseRaises(s, Parsed[text])
    \/ \E text \in OpenAIReplies(api_key) : NoFreshBreak(s, Parsed[text])
    \/ \E text \in OpenAIReplies(api_key) : AcceptRound(s, Parsed[text])
    \/ Return(s)

\* One session on the engine
Next == \E s \in Solo : Step(s)

Spec == Init /\ [][Next]_vars

\* ------------------------------------- generate_questions, called alone
\* One engine, and one completion text for generate_questions to parse
InitAlone ==
    /\ InitEngine
    /\ api_key
    /\ nov_thr = (35 * NovScale) \div 100
    /\ max_s = 0
    /\ max_r = 0
    /\ gq_text \in ProbeTexts
    /\ gq_out = NotCalled
    /\ NoveltyIdle
    /\ ScanIdle

\* generate_questions from the completion's text on: what it returns, or the
\* IndexError it raises
GenerateAlone ==
    /\ gq_out = NotCalled
    /\ \E ret \in Answers(ParseCompletion(gq_text), has_index, retriever) :
        /\ retriever' = ret
        /\ gq_out' = GenerateQuestions(ParseCompletion(gq_text), has_index, ret)
    /\ UNCHANGED <<engine, clock, pc, locals, calls, inflight, gq_text, probes, scan, cycle>>

SpecAlone == InitAlone /\ [][GenerateAlone]_vars

\* ------------------------------------------------- _novelty, called alone
\* Either a session on the engine, which reaches _novelty through
\* generate_questions, or _novelty about to be called on a list of distances
InitNovelty ==
    \/ Init
    \/ /\ InitEngine
       /\ api_key
       /\ has_index
       /\ nov_thr = (35 * NovScale) \div 100
       /\ max_s = 0
       /\ max_r = 0
       /\ gq_text = <<>>
       /\ gq_out = NotCalled
       /\ nov_hits \in HitProbes
       /\ nov_out = ScorePending
       /\ ScanIdle

\* _novelty from the hits of its search on
NoveltyAlone ==
    /\ nov_out = ScorePending
    /\ nov_out' = [kind |-> "ok", novelty |-> Novelty(nov_hits)]
    /\ UNCHANGED <<engine, retriever, clock, pc, locals, calls, inflight,
                   gq_text, gq_out, nov_hits, scan, cycle>>

NextNovelty == Next \/ NoveltyAlone

SpecNovelty == InitNovelty /\ [][NextNovelty]_vars

\* --------------------------------------------- dissonance_scan, called alone
\* One engine, a contradiction collaborator, and the texts and the threshold of
\* a call of dissonance_scan
InitScan ==
    /\ InitEngine
    /\ api_key
    /\ has_index
    /\ nov_thr = (35 * NovScale) \div 100
    /\ max_s = 0
    /\ max_r = 0
    /\ gq_text = <<>>
    /\ gq_out = NotCalled
    /\ NoveltyIdle
    /\ nli \in [ScanTexts \X ScanTexts -> ProbSamples]
    /\ ds_texts \in TextLists
    /\ ds_thr \in Thresholds
    /\ ds_out = NotScanned
    /\ ds_perm = <<>>
    /\ ds_perm_out = NotScanned

\* dissonance_scan(ds_texts, ds_thr)
ScanAlone ==
    /\ ds_out = NotScanned
    /\ ds_out' = DissonanceScan(ds_texts, ds_thr, nli)
    /\ UNCHANGED <<engine, retriever, clock, pc, locals, calls, inflight,
                   gq_text, gq_out, probes, cycle,
                   nli, ds_texts, ds_thr, ds_perm, ds_perm_out>>

\* dissonance_scan, called once more with the same texts in another order
ScanPermuted ==
    /\ ds_out # NotScanned
    /\ ds_perm_out = NotScanned
    /\ \E texts \in Reorderings(ds_texts) :
        /\ ds_perm' = texts
        /\ ds_perm_out' = DissonanceScan(texts, ds_thr, nli)
    /\ UNCHANGED <<engine, retriever, clock, pc, locals, calls, inflight,
                   gq_text, gq_out, probes, cycle,
                   nli, ds_texts, ds_thr, ds_out>>

NextScan == ScanAlone \/ ScanPermuted

SpecScan == InitScan /\ [][NextScan]_vars

\* -------------------------------------------------------------- run_cycle
\* An engine with its contradiction collaborator. With a key, no index and up
\* to MaxRounds rounds; without one, where every completion is the same
\* diagnostic, an index or none and also rounds enough for a trail longer than
\* the pool
InitCycle ==
    /\ api_key \in BOOLEAN
    /\ has_index \in (IF api_key THEN {FALSE} ELSE BOOLEAN)
    /\ retriever = <<>>
    /\ nov_thr \in NovThresholds
    /\ max_s \in 0..(MaxClock - 1)
    /\ max_r \in 0..MaxRounds \cup (IF api_key THEN {} ELSE {LongRun})
    /\ InitFrames
    /\ gq_text = <<>>
    /\ gq_out = NotCalled
    /\ NoveltyIdle
    /\ nli \in CycleNlis
    /\ ds_texts = <<>>
    /\ ds_thr = DefaultThreshold
    /\ ds_out = NotScanned
    /\ ds_perm = <<>>
    /\ ds_perm_out = NotScanned

\* run_cycle(topic) is called and calls bounded_explore(seed=topic, per_round=6),
\* which runs to its loop
CycleStart(s) ==
    /\ pc[s] = "idle"
    /\ \E sd \in Seeds :
        /\ seed' = [seed EXCEPT ![s] = sd]
        /\ current_seed' = [current_seed EXCEPT ![s] = sd]
    /\ per_round' = [per_round EXCEPT ![s] = CyclePerRound]
    /\ start' = [start EXCEPT ![s] = clock]
    /\ clock' = clock
    /\ trail' = [trail EXCEPT ![s] = <<>>]
    /\ rnd' = [rnd EXCEPT ![s] = 0]
    /\ pc' = [pc EXCEPT ![s] = "loop"]
    /\ UNCHANGED <<alone, engine, retriever, topic, batch, fresh, exc, result, calls, inflight>>

\* bounded_explore has returned: the slice of the trail's texts, the
\* dissonance scan of it with the default threshold, and run_cycle's return
CycleScan(s) ==
    /\ pc[s] = "returned"
    /\ LET questions == PoolSlice(result[s].trail)
           out == DissonanceScan(questions, DefaultThreshold, nli)
       IN  /\ scan_in' = [scan_in EXCEPT ![s] = questions]
           /\ scan_calls' = [scan_calls EXCEPT ![s] = out.calls]
           /\ cycle_out' = [cycle_out EXCEPT ![s] =
                  [topic |-> seed[s], session |-> result[s], dissonance |-> out.pairs]]
    /\ pc' = [pc EXCEPT ![s] = "cycle_done"]
    /\ UNCHANGED <<engine, retriever, clock, locals, calls, inflight,
                   gq_text, gq_out, probes, scan>>

CycleStep(s) ==
    \/ CycleStart(s)
    \/ LoopExhausted(s)
    \/ TimeBudgetBreak(s)
    \/ IssueCompletion(s)
    \/ CompletionRaise(s)
    \/ \E text \in OpenAIReplies(api_key) : ParseRaises(s, Parsed[text])
    \/ \E text \in OpenAIReplies(api_key) : NoFreshBreak(s, Parsed[text])
    \/ \E text \in OpenAIReplies(api_key) : AcceptRound(s, Parsed[text])
    \/ Return(s)
    \/ CycleScan(s)

\* One cycle on the engine
NextCycle == \E s \in Solo : CycleStep(s)

SpecCycle == InitCycle /\ [][NextCycle]_vars

\* ------------------------------------------------- cycles run concurrently
\* The engine and the orchestrator are module-level singletons: every /ask
\* request runs its cycle on them, and the cycles interleave at their awaits.
\* Two cycles of one round at most, on an engine without an index
InitConcurrent ==
    /\ api_key = TRUE
    /\ has_index = FALSE
    /\ retriever = <<>>
    /\ nov_thr \in NovThresholds
    /\ max_s \in 0..(MaxClock - 1)
    /\ max_r \in {0, 1}
    /\ InitFrames
    /\ gq_text = <<>>
    /\ gq_out = NotCalled
    /\ NoveltyIdle
    /\ nli = NliShortFirst
    /\ ds_texts = <<>>
    /\ ds_thr = DefaultThreshold
    /\ ds_out = NotScanned
    /\ ds_perm = <<>>
    /\ ds_perm_out = NotScanned

NextConcurrent == \E s \in Sessions : CycleStep(s)

SpecConcurrent == InitConcurrent /\ [][NextConcurrent]_vars

\* ------------------------------------- a session whose collaborators return
\* The steps of a session when every collaborator call returns: the completion
\* gives a text, never an exception
StepReturning(s) ==
    \/ Start(s)
    \/ LoopExhausted(s)
    \/ TimeBudgetBreak(s)
    \/ IssueCompletion(s)
    \/ \E text \in OpenAIReplies(api_key) : ParseRaises(s, Parsed[text])
    \/ \E text \in OpenAIReplies(api_key) : NoFreshBreak(s, Parsed[text])
    \/ \E text \in OpenAIReplies(api_key) : AcceptRound(s, Parsed[text])
    \/ Return(s)

NextReturning == \E s \in Solo : StepReturning(s)

\* The event loop runs a coroutine that can run, and an awaited call returns
SpecReturning == Init /\ [][NextReturning]_vars /\ WF_vars(NextReturning)

\* ------------------------------------------------------------------ claims
Running == {"loop", "awaiting", "returning"}

\* The trail a session holds: the local while the call runs, the returned one after
TrailOf(s) == IF pc[s] = "returned" THEN result[s].trail ELSE trail[s]

\* C1: every entry of a session's trail, while the call runs and in the result
\* it returns, has novelty >= the engine's novelty_threshold.
C1_TrailAboveThreshold ==
    \A s \in Sessions : \A i \in DOMAIN TrailOf(s) : TrailOf(s)[i].novelty >= nov_thr

\* A round whose batch held a candidate below the threshold and one at or above
\* it, the latter now in the trail
C1_Witness ==
    \E s \in Sessions :
        /\ pc[s] = "loop"
        /\ trail[s] # <<>>
        /\ fresh[s] # <<>>
        /\ \E i \in DOMAIN batch[s] : batch[s][i].novelty < nov_thr

\* C2: len(trail) <= max_rounds * per_round, in every state and in the result.
C2_TrailWithinBudget ==
    \A s \in Sessions : pc[s] # "idle" => Len(TrailOf(s)) <= max_r * per_round[s]

\* C3: a session issues at most max_rounds completion calls, one for each round
\* that passes its time check, and at most one is outstanding at any time.
C3_CallsBounded ==
    \A s \in Sessions :
        /\ calls[s] <= max_r
        /\ inflight[s] = (IF pc[s] = "awaiting" THEN 1 ELSE 0)
        /\ pc[s] = "loop" => calls[s] = rnd[s]
        /\ pc[s] = "awaiting" => calls[s] = rnd[s] + 1

\* A session that used its whole budget of rounds and returned
C3_Witness ==
    \E s \in Sessions : pc[s] = "returned" /\ max_r >= 2 /\ calls[s] = max_r

StoppedByRounds(s) == rnd[s] = max_r /\ calls[s] = rnd[s]
StoppedByTime(s) == rnd[s] < max_r /\ calls[s] = rnd[s] /\ clock - start[s] > max_s
StoppedByNoFresh(s) ==
    /\ rnd[s] < max_r
    /\ calls[s] = rnd[s] + 1
    /\ fresh[s] = <<>>
    /\ clock - start[s] <= max_s

C5_ZeroBudgetNeverCalls ==
    \A s \in Sessions :
        (max_s = 0 /\ max_r >= 1) => (calls[s] = 0 /\ TrailOf(s) = <<>>)

\* C5, amended: with max_round_seconds = 0 and max_rounds >= 1, if the clock
\* reading of the first round-start check is later than the start reading,
\* bounded_explore leaves the loop at that check: the trail is empty and no
\* completion call is issued.
C5_ZeroBudgetStopsOnceClockMoved ==
    [][\A s \in Sessions :
        (/\ max_s = 0
         /\ max_r >= 1
         /\ pc[s] = "loop"
         /\ rnd[s] = 0
         /\ pc'[s] # "loop"
         /\ clock' > start[s])
        => (pc'[s] = "returning" /\ trail'[s] = <<>> /\ calls'[s] = 0)]_vars

\* The first round-start check of a zero budget, failed
C5_Witness ==
    \E s \in Sessions :
        /\ max_s = 0
        /\ max_r >= 1
        /\ pc[s] = "returning"
        /\ calls[s] = 0
        /\ clock > start[s]

\* C6: no question made of a diagnostic string (the collaborator's way of
\* signalling failure) is ever in a trail, running or returned.
C6_NoDiagnosticInTrail ==
    \A s \in Sessions : \A i \in DOMAIN TrailOf(s) :
        TrailOf(s)[i].q \notin {Strip(d) : d \in Diagnostics}

\* The enumeration prefix as the specification words it: the first character a
\* digit and a period within the first three characters, or the second
\* character ")" or "."
EnumPrefixed(line) ==
    /\ line # <<>>
    /\ IsDigit(line[1])
    /\ \/ Contains(Prefix(line, 3), ".")
       \/ (Len(line) >= 2 /\ line[2] \in {")", "."})

\* The stripped line after removal of its enumeration prefix
Remainder(raw_line) ==
    LET line == Strip(raw_line) IN
    IF EnumPrefixed(line)
    THEN LET parts == IF Contains(Prefix(line, 3), ".") THEN Split1(line, ".")
                      ELSE Split1(line, ")")
         IN  Strip(parts[2])
    ELSE line

\* No candidate of at least 6 characters can be extracted from the text
NoCandidate(text) ==
    LET lines == SplitLines(text) IN
    \A i \in DOMAIN lines : Len(Remainder(lines[i])) < 6

\* The continuation of the await for a completion that parsed to p
ReplyWith(s, p) == ParseRaises(s, p) \/ NoFreshBreak(s, p) \/ AcceptRound(s, p)

\* C7: a completion from which no candidate can be extracted makes
\* generate_questions return an empty batch without raising, and the session
\* leaves the loop for want of fresh candidates.
C7_NoCandidateEndsGracefully ==
    [][\A s \in Sessions : \A text \in OpenAIReplies(api_key) :
        (pc[s] = "awaiting" /\ NoCandidate(text) /\ ReplyWith(s, Parsed[text]))
        => (pc'[s] = "returning" /\ batch'[s] = <<>> /\ exc'[s] = "none")]_vars

\* C8: the seed a round passes to generate_questions is the input seed in
\* round 1 and, in a later round, the text of the first candidate the round
\* before accepted, whose novelty no candidate of that round's batch exceeds.
C8_SeedChain ==
    \A s \in Sessions :
        pc[s] = "awaiting" =>
            IF rnd[s] = 0
            THEN topic[s] = seed[s]
            ELSE /\ fresh[s] # <<>>
                 /\ Len(trail[s]) >= Len(fresh[s])
                 /\ SubSeq(trail[s], Len(trail[s]) - Len(fresh[s]) + 1, Len(trail[s]))
                        = fresh[s]
                 /\ topic[s] = fresh[s][1].q
                 /\ \E i \in DOMAIN batch[s] : batch[s][i] = fresh[s][1]
                 /\ \A i \in DOMAIN batch[s] :
                        batch[s][i].novelty <= fresh[s][1].novelty

\* A second round, seeded from a batch whose candidates differ in novelty and
\* whose most novel one was not on the completion's first line
C8_Witness ==
    \E s \in Sessions :
        /\ pc[s] = "awaiting"
        /\ rnd[s] = 1
        /\ Len(fresh[s]) = 2
        /\ fresh[s][1].novelty > fresh[s][2].novelty
        /\ fresh[s][1].q = QuestionB
        /\ topic[s] = QuestionB

NonIncreasing(seg) ==
    \A i, j \in DOMAIN seg : i < j => seg[i].novelty >= seg[j].novelty

\* The candidates of seg of one novelty are those of the scored lines, in line
\* order
TiesInLineOrder(seg, scored) ==
    \A k \in DOMAIN seg :
        LET Same(c) == c.novelty = seg[k].novelty
        IN  SelectSeq(seg, Same) = SelectSeq(scored, Same)

\* C9: a step changes a running session's trail only by appending, at its end,
\* the segment of the round that just ended; within the segment novelty does
\* not increase, and candidates of equal novelty keep the order of their lines
\* in the completion; the trail returned is the trail accumulated.
C9_TrailOrder ==
    [][\A s \in Sessions :
        /\ (pc[s] \in Running /\ pc'[s] \in Running) =>
            \/ trail'[s] = trail[s] /\ rnd'[s] = rnd[s]
            \/ /\ Len(trail'[s]) > Len(trail[s])
               /\ SubSeq(trail'[s], 1, Len(trail[s])) = trail[s]
               /\ rnd'[s] = rnd[s] + 1
               /\ LET seg == SubSeq(trail'[s], Len(trail[s]) + 1, Len(trail'[s])) IN
                    /\ NonIncreasing(seg)
                    /\ \E text \in OpenAIReplies(api_key) :
                          /\ Len(Parsed[text].texts) = Len(batch'[s])
                          /\ AcceptRound(s, Parsed[text])
                          /\ TiesInLineOrder(seg,
                                 Score(Parsed[text].texts, has_index, retriever'))
        /\ (pc[s] = "returning" /\ pc'[s] = "returned") => result'[s].trail = trail[s]
      ]_vars

\* A second round's segment of two different questions of equal novelty, behind
\* the first round's
C9_Witness ==
    \E s \in Sessions :
        /\ pc[s] = "loop"
        /\ rnd[s] = 2
        /\ Len(fresh[s]) = 2
        /\ Len(trail[s]) > 2
        /\ fresh[s][1].novelty = fresh[s][2].novelty
        /\ fresh[s][1].q # fresh[s][2].q

\* C10: every entry generate_questions returns has a text of at least 6
\* characters, the text being a line of the completion, stripped, with its
\* enumeration prefix removed.
C10_NoShortQuestion ==
    gq_out.kind = "ok" =>
        \A i \in DOMAIN gq_out.questions :
            /\ Len(gq_out.questions[i].q) >= 6
            /\ LET lines == SplitLines(gq_text) IN
               \E k \in DOMAIN lines : gq_out.questions[i].q = Remainder(lines[k])

\* A question of exactly 6 characters, left of a line by removing its prefix
C10_Witness ==
    /\ gq_out.kind = "ok"
    /\ Len(gq_out.questions) = 1
    /\ Len(gq_out.questions[1].q) = 6
    /\ Len(Strip(gq_text)) > 6

\* C11: the novelty of any list of neighbour distances, negative ones included,
\* is in [0, 1], and exactly 0.5 when there are no neighbours; so without an
\* index every candidate of a batch has novelty 0.5, and all of them are
\* accepted if novelty_threshold <= 0.5 and none otherwise: the trail then
\* stays empty and the session leaves the loop at the first round's check for
\* fresh candidates.
C11_NoveltyRange ==
    /\ nov_out.kind = "ok" =>
        /\ nov_out.novelty >= 0
        /\ nov_out.novelty <= NovScale
        /\ nov_hits = <<>> => 2 * nov_out.novelty = NovScale
    /\ \A s \in Sessions : ~has_index =>
        /\ \A i \in DOMAIN batch[s] : 2 * batch[s][i].novelty = NovScale
        /\ (pc[s] \in {"loop", "returning"} /\ calls[s] >= 1) =>
              fresh[s] = (IF 2 * nov_thr <= NovScale THEN batch[s] ELSE <<>>)
        /\ 2 * nov_thr > NovScale =>
              /\ TrailOf(s) = <<>>
              /\ (pc[s] = "returning" /\ calls[s] >= 1) => (calls[s] = 1 /\ rnd[s] = 0)

\* _novelty called on hits with a negative distance, which max(d, 0.0) took as 0
C11_Witness ==
    /\ nov_out.kind = "ok"
    /\ \E i \in DOMAIN nov_hits : nov_hits[i] < 0
    /\ nov_out.novelty = 0

\* The index pair x is before the index pair y in the order of the two loops
PairBefore(x, y) == x[1] < y[1] \/ (x[1] = y[1] /\ x[2] < y[2])

\* The pair dissonance_scan reports for the index pair c of texts
Reported(texts, c) ==
    [a |-> texts[c[1]], b |-> texts[c[2]],
     contradiction |-> Round3(nli[<<texts[c[1]], texts[c[2]]>>])]

\* What the claim says of one call: the calls are the index pairs (i, j) with
\* i < j, each once, in ascending order, and the pairs returned are those of
\* the calls that gave a probability >= threshold, in the same order
ScansEachPairOnce(texts, out) ==
    LET n == Len(texts)
        hit == SelectSeq(out.calls,
                   LAMBDA c : nli[<<texts[c[1]], texts[c[2]]>>] >= ds_thr)
    IN  /\ 2 * Len(out.calls) = n * (n - 1)
        /\ \A k \in DOMAIN out.calls :
              /\ 1 <= out.calls[k][1]
              /\ out.calls[k][1] < out.calls[k][2]
              /\ out.calls[k][2] <= n
        /\ \A k, l \in DOMAIN out.calls :
              k < l => PairBefore(out.calls[k], out.calls[l])
        /\ out.pairs = [k \in DOMAIN hit |-> Reported(texts, hit[k])]

\* C12: dissonance_scan on n texts calls the contradiction collaborator once
\* for each index pair (i, j) with i < j, on (texts[i], texts[j]), and for no
\* other pair: n*(n-1)/2 calls, none when n <= 1; the pairs returned are the
\* qualifying ones in ascending (i, j) order.
C12_EachPairOnce ==
    /\ ds_out # NotScanned => ScansEachPairOnce(ds_texts, ds_out)
    /\ ds_perm_out # NotScanned => ScansEachPairOnce(ds_perm, ds_perm_out)

\* Three texts, two of three pairs returned, the later one with the higher score
C12_Witness ==
    /\ Len(ds_texts) = 3
    /\ Len(ds_out.calls) = 3
    /\ Len(ds_out.pairs) = 2
    /\ ds_out.pairs[1].contradiction < ds_out.pairs[2].contradiction

\* C13 as claimed: the contradiction value stored in a returned pair, the
\* probability rounded to 3 decimals, is >= the threshold, whatever the
\* threshold.
C13_StoredAboveThreshold ==
    \A k \in DOMAIN ds_out.pairs : ds_out.pairs[k].contradiction >= ds_thr

\* C13, amended: every returned pair has a probability >= the threshold; the
\* value stored, the probability rounded to 3 decimals, is >= the threshold
\* when the threshold is a whole number of thousandths, and is otherwise below
\* it by at most 0.0005.
C13_ScoreAboveThreshold ==
    \A k \in DOMAIN ds_out.pairs :
        LET pair == ds_out.pairs[k] IN
        /\ nli[<<pair.a, pair.b>>] >= ds_thr
        /\ pair.contradiction = Round3(nli[<<pair.a, pair.b>>])
        /\ ds_thr % TicksPerMilli = 0 => pair.contradiction >= ds_thr
        /\ 2 * (ds_thr - pair.contradiction) <= TicksPerMilli

\* A pair returned at the default threshold whose probability was rounded down
\* onto it
C13_Witness ==
    /\ ds_thr = DefaultThreshold
    /\ \E k \in DOMAIN ds_out.pairs :
        /\ nli[<<ds_out.pairs[k].a, ds_out.pairs[k].b>>] > DefaultThreshold
        /\ ds_out.pairs[k].contradiction = DefaultThreshold

\* The unordered text pairs of the pairs a scan returned
UnorderedPairs(out) == {{out.pairs[k].a, out.pairs[k].b} : k \in DOMAIN out.pairs}

\* nli.contradiction gives (a, b) and (b, a) the same probability
Symmetric == \A a, b \in ScanTexts : nli[<<a, b>>] = nli[<<b, a>>]

\* C14 as claimed: the texts in another order give the same set of unordered
\* pairs, whatever function of the ordered pair the collaborator is.
C14_OrderIndependent ==
    ds_perm_out # NotScanned => UnorderedPairs(ds_perm_out) = UnorderedPairs(ds_out)

\* C14, amended: the texts in another order give the same set of unordered
\* pairs when the collaborator gives (a, b) and (b, a) the same probability.
C14_OrderIndependentIfSymmetric ==
    (ds_perm_out # NotScanned /\ Symmetric) =>
        UnorderedPairs(ds_perm_out) = UnorderedPairs(ds_out)

\* A symmetric collaborator, three texts scanned in two different orders, the
\* same pair returned with a and b exchanged
C14_Witness ==
    /\ Symmetric
    /\ Len(ds_texts) = 3
    /\ ds_perm_out # NotScanned
    /\ ds_perm # ds_texts
    /\ \E k \in DOMAIN ds_out.pairs, l \in DOMAIN ds_perm_out.pairs :
        /\ ds_out.pairs[k].a # ds_out.pairs[k].b
        /\ ds_out.pairs[k].a = ds_perm_out.pairs[l].b
        /\ ds_out.pairs[k].b = ds_perm_out.pairs[l].a

\* C15: the dissonance scan of a cycle runs once bounded_explore has returned,
\* on the first min(8, len(trail)) texts of the trail in trail order, so with
\* at most 28 contradiction evaluations; every pair reported has a and b among
\* those texts, a before b; run_cycle returns {topic, session, dissonance},
\* the topic it was given and the result bounded_explore returned.
C15_CycleScansPool ==
    \A s \in Sessions :
        /\ pc[s] # "cycle_done" =>
              (scan_calls[s] = <<>> /\ scan_in[s] = <<>> /\ cycle_out[s] = NoCycle)
        /\ pc[s] = "cycle_done" =>
              LET entries == result[s].trail
                  n == Min(8, Len(entries))
              IN  /\ scan_in[s] = [i \in 1..n |-> entries[i].q]
                  /\ 2 * Len(scan_calls[s]) = n * (n - 1)
                  /\ Len(scan_calls[s]) <= 28
                  /\ \A k \in DOMAIN cycle_out[s].dissonance :
                        \E i, j \in 1..n :
                            /\ i < j
                            /\ cycle_out[s].dissonance[k].a = entries[i].q
                            /\ cycle_out[s].dissonance[k].b = entries[j].q
                  /\ DOMAIN cycle_out[s] = {"topic", "session", "dissonance"}
                  /\ cycle_out[s].topic = seed[s]
                  /\ cycle_out[s].session = result[s]

\* A cycle whose trail was longer than the pool: 28 evaluations, pairs reported
C15_Witness ==
    \E s \in Sessions :
        /\ pc[s] = "cycle_done"
        /\ Len(result[s].trail) > 8
        /\ Len(scan_calls[s]) = 28
        /\ cycle_out[s].dissonance # <<>>

\* All that belongs to one session: its arguments, the locals of its calls,
\* what they returned or raised
Frame(s) ==
    <<pc[s], seed[s], per_round[s], start[s], trail[s], current_seed[s], rnd[s],
      topic[s], batch[s], fresh[s], exc[s], result[s], calls[s], inflight[s],
      cycle_out[s], scan_in[s], scan_calls[s]>>

\* C16: with cycles interleaved on one engine, a step that changes anything of
\* a session is a step of that session's own cycle, taken from its own seed,
\* trail and round count and the collaborators' replies as it would be taken
\* alone, and it leaves every other session's seed, trail, round count and
\* results as they were.
C16_SessionsIndependent ==
    [][\A s \in Sessions :
        Frame(s)' # Frame(s) =>
            /\ CycleStep(s)
            /\ \A t \in Sessions \ {s} : Frame(t)' = Frame(t)]_vars

\* Two sessions under way, each with a trail of its own
C16_Witness ==
    /\ pc["s1"] = "loop"
    /\ pc["s2"] = "loop"
    /\ trail["s1"] # <<>>
    /\ trail["s2"] # <<>>
    /\ trail["s1"] # trail["s2"]

\* C17: when every collaborator call returns, a session that was started
\* returns, after at most max_rounds rounds; with max_rounds = 0 it makes no
\* collaborator call and its trail is empty.
C17_EventuallyReturns ==
    /\ \A s \in Solo : (pc[s] = "loop") ~> (pc[s] = "returned")
    /\ [](\A s \in Solo : rnd[s] <= max_r /\ calls[s] <= max_r)
    /\ [](\A s \in Solo : max_r = 0 => (calls[s] = 0 /\ TrailOf(s) = <<>>))

====
